---- MODULE Spec2Model ----
(***************************************************************************)
(* stack_pool<T, N> of src/exam/stack_pool.hpp: a pool of singly linked    *)
(* stacks kept in one std::vector<node_t>, addressed by indices 1..size,   *)
(* with 0 (end()) as the sentinel, and a free list threaded through the    *)
(* same next fields.  MyIterator walks one stack through next.             *)
(***************************************************************************)
EXTENDS Integers, Sequences, FiniteSets, TLC

(* ---------------------------- bounds ----------------------------------- *)
MaxNodes == 3        \* the growth path of push is taken while size < MaxNodes
NStacks == 2         \* stack handles the caller keeps
MaxReserve == 2      \* arguments of reserve and of stack_pool(n) are 0..MaxReserve
MaxCopies == 1       \* times the caller uses a handle again after passing it to a call
NarrowBits == 2      \* width of the index type N where the pool outgrows it
ByteBits == 8        \* width of the index type N = std::uint8_t, where a call reads outside the vector

Slots == 1..NStacks
\* the value type the pool is instantiated with: a type of two values
T == {1, 2}

VARIABLES
  pool,        \* std::vector<node_t> pool: sequence of [value, next]; node(x) is pool[x]
  cap,         \* pool.capacity()
  free_nodes,  \* head of the free list
  N_bits,      \* width of the index type N the pool is instantiated with
  heads,       \* the caller's stack handles, one per slot
  log,         \* per slot: the values pushed and not yet popped, oldest first
  it,          \* the caller's MyIterator (PoolPointer is this pool), and what the loop has read
  credit,      \* pops not yet matched by a later push
  copies,      \* calls so far that were given a handle the caller kept and used again
  fs,          \* a free_stack call in progress (only where the loop is stepped)
  hw,          \* the largest number of nodes that were live at the same time so far
  scn,         \* how many calls of the scenario of spec section 8 the calls so far make up
  fault        \* a call has read outside the memory of the process: the run has ended

vars == <<pool, cap, free_nodes, N_bits, heads, log, it, credit, copies, fs, hw, scn, fault>>

(* ------------------------- stack_pool members --------------------------- *)
end == 0
new_stack == end
empty(x) == x = end

node(p, x) == p[x]
value(p, x) == node(p, x).value
next(p, x) == node(p, x).next

\* the indices an iterator started at x visits, at most fuel of them
RECURSIVE Walk(_, _, _)
Walk(p, x, fuel) ==
  IF x = end \/ fuel = 0 THEN <<>>
  ELSE <<x>> \o Walk(p, next(p, x), fuel - 1)

ListFrom(p, x) == Walk(p, x, Len(p) + 1)

static_cast_N(n, w) == n % (2 ^ w)

\* capacity after std::vector::push_back on a vector of size sz and capacity c
push_back_capacity_realloc(sz, c) == sz + (IF sz > 1 THEN sz ELSE 1)
push_back_capacity(sz, c) == IF sz < c THEN c ELSE sz + (IF sz > 1 THEN sz ELSE 1)

\* capacity after std::vector::reserve(n)
reserve_exact(c, n) == n
reserve(c, n) == IF n > c THEN n ELSE c

\* variants of _push with one slip each
_push_keeps_next(p, f, c, w, val, head) ==
  IF empty(f)
    THEN LET p2 == Append(p, [value |-> val, next |-> head])
         IN [pool |-> p2, free_nodes |-> f, cap |-> push_back_capacity(Len(p), c),
             ret |-> static_cast_N(Len(p2), w)]
    ELSE [pool |-> [p EXCEPT ![f].value = val],
          free_nodes |-> next(p, f), cap |-> c, ret |-> f]


_push_keeps_free(p, f, c, w, val, head) ==
  IF empty(f)
    THEN LET p2 == Append(p, [value |-> val, next |-> head])
         IN [pool |-> p2, free_nodes |-> f, cap |-> push_back_capacity(Len(p), c),
             ret |-> static_cast_N(Len(p2), w)]
    ELSE [pool |-> [p EXCEPT ![f] = [value |-> val, next |-> head]],
          free_nodes |-> f, cap |-> c, ret |-> f]

_push_always_grows(p, f, c, w, val, head) ==
  LET p2 == Append(p, [value |-> val, next |-> head])
  IN [pool |-> p2, free_nodes |-> f, cap |-> push_back_capacity(Len(p), c),
      ret |-> static_cast_N(Len(p2), w)]

_push_stamps_free(p, f, c, w, val, head) ==
  IF empty(f)
    THEN LET p2 == Append(p, [value |-> val, next |-> head])
         IN [pool |-> p2, free_nodes |-> f, cap |-> push_back_capacity(Len(p), c),
             ret |-> static_cast_N(Len(p2), w)]
    ELSE [pool |-> [x \in 1..Len(p) |->
                     IF x = f THEN [value |-> val, next |-> head]
                     ELSE IF x = next(p, f) THEN [value |-> val, next |-> next(p, x)]
                     ELSE p[x]],
          free_nodes |-> next(p, f), cap |-> c, ret |-> f]

_push(p, f, c, w, val, head) ==
  IF empty(f)
    THEN LET p2 == Append(p, [value |-> val, next |-> head])
         IN [pool |-> p2, free_nodes |-> f, cap |-> push_back_capacity(Len(p), c),
             ret |-> static_cast_N(Len(p2), w)]
    ELSE LET tmp == f
         IN [pool |-> [p EXCEPT ![tmp] = [value |-> val, next |-> head]],
             free_nodes |-> next(p, f), cap |-> c, ret |-> tmp]

\* variants of pop with one slip each
pop_no_detach(p, f, x) ==
  [pool |-> p, free_nodes |-> x, ret |-> next(p, x)]

pop_self_loop(p, f, x) ==
  [pool |-> [p EXCEPT ![x].next = x], free_nodes |-> x, ret |-> next(p, x)]

pop_clears_value(p, f, x) ==
  [pool |-> [p EXCEPT ![x] = [value |-> 1, next |-> f]], free_nodes |-> x, ret |-> next(p, x)]


pop(p, f, x) ==
  LET tmp == next(p, x)
  IN [pool |-> [p EXCEPT ![x].next = f], free_nodes |-> x, ret |-> tmp]

free_stack_once(p, f, x) ==
  IF x /= end
    THEN [pool |-> pop(p, f, x).pool, free_nodes |-> pop(p, f, x).free_nodes, ret |-> end]
    ELSE [pool |-> p, free_nodes |-> f, ret |-> x]

free_stack_keeps_order(p, f, x) ==
  IF x /= end
    THEN LET l == ListFrom(p, x)
         IN [pool |-> [p EXCEPT ![l[Len(l)]].next = f], free_nodes |-> x, ret |-> end]
    ELSE [pool |-> p, free_nodes |-> f, ret |-> x]

RECURSIVE free_stack(_, _, _)
free_stack(p, f, x) ==
  IF x /= end
    THEN LET r == pop(p, f, x) IN free_stack(r.pool, r.free_nodes, r.ret)
    ELSE [pool |-> p, free_nodes |-> f, ret |-> x]

(* ------------------------------ MyIterator ------------------------------ *)
\* the caller holds no iterator: on is FALSE, no MyIterator object exists and
\* the other fields stand for nothing and are not read
NoIter == [on |-> FALSE, PoolPointer |-> "none", s |-> 0, StackIndex |-> end, n |-> 0, seen |-> <<>>]
\* MyIterator() = default:  MyIterator it{};  zeroes both members,
\* MyIterator it;  leaves both indeterminate (any pointer, any index: the
\* indices up to one past size stand for end, every node and no node)
MyIterator_default(size) ==
  {[on |-> TRUE, PoolPointer |-> "nullptr", s |-> 0, StackIndex |-> 0, n |-> 0, seen |-> <<>>]}
    \cup {[on |-> TRUE, PoolPointer |-> P, s |-> 0, StackIndex |-> x, n |-> 0, seen |-> <<>>] :
             P \in {"indeterminate"}, x \in 0..(size + 1)}
begin(s, x) == [on |-> TRUE, PoolPointer |-> "this", s |-> s, StackIndex |-> x, n |-> 0, seen |-> <<>>]
deref(p, i) == value(p, i.StackIndex)
incr_to_end(p, i) == [i EXCEPT !.StackIndex = end]
incr(p, i) == [i EXCEPT !.StackIndex = next(p, i.StackIndex)]
iter_eq_same_pool(a, b) == a.PoolPointer = b.PoolPointer /\ a.StackIndex = b.StackIndex
iter_eq(a, b) == a.StackIndex = b.StackIndex
iter_ne(a, b) == a.StackIndex /= b.StackIndex

NodesFrom(p, x) == LET l == ListFrom(p, x) IN {l[k] : k \in 1..Len(l)}
ValuesFrom(p, x) == LET l == ListFrom(p, x) IN [k \in 1..Len(l) |-> value(p, l[k])]
PairsFrom(p, x) == LET l == ListFrom(p, x) IN [k \in 1..Len(l) |-> <<l[k], value(p, l[k])>>]

Reverse(s) == [k \in 1..Len(s) |-> s[Len(s) + 1 - k]]
NoRepeat(s) == \A a, b \in 1..Len(s) : a /= b => s[a] /= s[b]
Max0(a) == IF a > 0 THEN a ELSE 0

(* -------------------------------- Init ---------------------------------- *)
\* stack_pool<T, N>() or stack_pool<T, N>(n) with an index type N of w bits:
\* no nodes, empty free list, capacity 0 or n
InitBits(w) ==
  /\ pool = <<>>
  /\ \E n \in 0..MaxReserve : cap = reserve(0, n)
  /\ free_nodes = end
  /\ N_bits = w
  /\ heads = [i \in Slots |-> new_stack]
  /\ log = [i \in Slots |-> <<>>]
  /\ it = NoIter
  /\ credit = 0
  /\ copies = 0
  /\ fs = [on |-> FALSE, s |-> 0, x |-> end]
  /\ hw = 0
  /\ scn = 0
  /\ fault = FALSE

\* an index type wide enough for every pool of the model
Init == InitBits(16)

\* an iterator over slot i is dropped by the caller when slot i is popped, pushed or freed
Drop(i) == IF it.on /\ it.s = i THEN NoIter ELSE it

(* ------------------------ calls under linear use ------------------------ *)
NewStack(i) ==
  /\ empty(heads[i])
  /\ heads' = [heads EXCEPT ![i] = new_stack]
  /\ UNCHANGED <<pool, cap, free_nodes, N_bits, log, it, credit, copies, fs, hw, scn, fault>>

\* the scenario of spec section 8 on slots 1 and 2: h1 = push(1, h0);
\* h2 = push(2, h1); h3 = pop(h2); h4 = push(3, h0); free_stack(h1).
\* scn counts its calls as long as the calls made are exactly these, else it is -1
Scenario ==
  <<[op |-> "push", s |-> 1, v |-> 1], [op |-> "push", s |-> 1, v |-> 2],
    [op |-> "pop", s |-> 1, v |-> 0], [op |-> "push", s |-> 2, v |-> 3],
    [op |-> "free_stack", s |-> 1, v |-> 0]>>
ScenarioStep(op, i, v) ==
  IF scn >= 0 /\ scn < Len(Scenario) /\ Scenario[scn + 1] = [op |-> op, s |-> i, v |-> v]
    THEN scn + 1 ELSE -1

\* the nodes on the stacks headed by h
LiveCount(p, h) == Cardinality(UNION {{ListFrom(p, h[i])[k] : k \in 1..Len(ListFrom(p, h[i]))} : i \in Slots})
Max2(a, b) == IF a > b THEN a ELSE b

\* heads[i] = push(v, heads[i]), the pool growing to at most bound nodes
PushCall(i, v, bound) ==
  /\ log' = [log EXCEPT ![i] = Append(@, v)]
  /\ LET r == _push(pool, free_nodes, cap, N_bits, v, heads[i])
     IN /\ Len(r.pool) <= bound
        /\ pool' = r.pool
        /\ free_nodes' = r.free_nodes
        /\ cap' = r.cap
        /\ heads' = [heads EXCEPT ![i] = r.ret]
        /\ hw' = Max2(hw, LiveCount(r.pool, [heads EXCEPT ![i] = r.ret]))
  /\ credit' = Max0(credit - 1)
  /\ it' = Drop(i)
  /\ scn' = ScenarioStep("push", i, v)
  /\ UNCHANGED <<N_bits, copies, fs, fault>>

Push(i, v) == PushCall(i, v, MaxNodes)

Pop(i) ==
  /\ ~empty(heads[i])
  /\ log' = [log EXCEPT ![i] = SubSeq(@, 1, Len(@) - 1)]
  /\ LET r == pop(pool, free_nodes, heads[i])
     IN /\ pool' = r.pool
        /\ free_nodes' = r.free_nodes
        /\ heads' = [heads EXCEPT ![i] = r.ret]
  /\ credit' = credit + 1
  /\ it' = Drop(i)
  /\ scn' = ScenarioStep("pop", i, 0)
  /\ UNCHANGED <<cap, N_bits, copies, fs, hw, fault>>

FreeStack(i) ==
  /\ log' = [log EXCEPT ![i] = <<>>]
  /\ LET r == free_stack(pool, free_nodes, heads[i])
     IN /\ pool' = r.pool
        /\ free_nodes' = r.free_nodes
        /\ heads' = [heads EXCEPT ![i] = r.ret]
  /\ credit' = credit + Len(ListFrom(pool, heads[i]))
  /\ it' = Drop(i)
  /\ scn' = ScenarioStep("free_stack", i, 0)
  /\ UNCHANGED <<cap, N_bits, copies, fs, hw, fault>>

Reserve(n) ==
  /\ cap' = reserve(cap, n)
  /\ UNCHANGED <<pool, free_nodes, N_bits, heads, log, it, credit, copies, fs, hw, scn, fault>>

\* auto it = begin(heads[i])
Begin(i) ==
  /\ it' = begin(i, heads[i])
  /\ UNCHANGED <<pool, cap, free_nodes, N_bits, heads, log, credit, copies, fs, hw, scn, fault>>

\* one turn of  for (; it != end(h); ++it) read *it
Advance ==
  /\ it.on
  /\ ~iter_eq(it, begin(it.s, end))
  /\ it' = [incr(pool, it) EXCEPT !.n = @ + 1, !.seen = Append(@, deref(pool, it))]
  /\ UNCHANGED <<pool, cap, free_nodes, N_bits, heads, log, credit, copies, fs, hw, scn, fault>>

Next ==
  \/ \E i \in Slots : NewStack(i)
  \/ \E i \in Slots, v \in T : Push(i, v)
  \/ \E i \in Slots : Pop(i)
  \/ \E i \in Slots : FreeStack(i)
  \/ \E n \in 0..MaxReserve : Reserve(n)
  \/ \E i \in Slots : Begin(i)
  \/ Advance

Spec == Init /\ [][Next]_vars

\* the calls of the scenario take the values 1, 2 and 3
ScenarioValues == T \cup {3}
NextScenario ==
  \/ \E i \in Slots : NewStack(i)
  \/ \E i \in Slots, v \in ScenarioValues : Push(i, v)
  \/ \E i \in Slots : Pop(i)
  \/ \E i \in Slots : FreeStack(i)

SpecScenario == Init /\ [][NextScenario]_vars

\* a pool with an index type of NarrowBits bits, grown until pool.size()
\* no longer fits the index type
PushNarrow(i, v) == PushCall(i, v, 2 ^ N_bits)
NextNarrow ==
  \/ \E i \in Slots, v \in T : PushNarrow(i, v)
  \/ \E i \in Slots : Pop(i)
  \/ \E i \in Slots : FreeStack(i)

InitNarrow == InitBits(NarrowBits)
SpecNarrow == InitNarrow /\ [][NextNarrow]_vars

(* ------------- calls with handles copied and used again ---------------- *)
\* handles are plain integers: the caller may keep a handle it has passed to push
\* and use it again.  A node is live when it is allocated and not on the free list.
Live(x) == x \in 1..Len(pool) /\ x \notin NodesFrom(pool, free_nodes)
NoCall == [on |-> FALSE, s |-> 0, x |-> end]

\* heads[j] = push(v, heads[i]): the caller keeps heads[i] when j /= i
KeepsHandle(i, j) == i /= j /\ ~(empty(heads[i]) /\ empty(heads[j]))
\* every call so far was given the current head of a stack and replaced it
linear == copies = 0

PushAny(i, j, v) ==
  /\ ~fs.on
  /\ KeepsHandle(i, j) => copies < MaxCopies
  /\ empty(heads[i]) \/ Live(heads[i])
  /\ LET r == _push(pool, free_nodes, cap, N_bits, v, heads[i])
     IN /\ Len(r.pool) <= MaxNodes
        /\ pool' = r.pool
        /\ free_nodes' = r.free_nodes
        /\ cap' = r.cap
        /\ heads' = [heads EXCEPT ![j] = r.ret]
  /\ copies' = IF KeepsHandle(i, j) THEN copies + 1 ELSE copies
  /\ UNCHANGED <<N_bits, log, it, credit, fs, hw, scn, fault>>

PopAny(i) ==
  /\ ~fs.on
  /\ Live(heads[i])
  /\ LET r == pop(pool, free_nodes, heads[i])
     IN /\ pool' = r.pool
        /\ free_nodes' = r.free_nodes
        /\ heads' = [heads EXCEPT ![i] = r.ret]
  /\ UNCHANGED <<cap, N_bits, log, it, credit, copies, fs, hw, scn, fault>>

\* free_stack(heads[i]) is entered: x is its parameter
FreeStackCall(i) ==
  /\ ~fs.on
  /\ Live(heads[i])
  /\ fs' = [on |-> TRUE, s |-> i, x |-> heads[i]]
  /\ UNCHANGED <<pool, cap, free_nodes, N_bits, heads, log, it, credit, copies, hw, scn, fault>>

\* one test of  while (x != end())  and the body or the return that follows it
FreeStackLoop ==
  /\ fs.on
  /\ IF fs.x /= end
       THEN LET r == pop(pool, free_nodes, fs.x)
            IN /\ pool' = r.pool
               /\ free_nodes' = r.free_nodes
               /\ fs' = [fs EXCEPT !.x = r.ret]
               /\ UNCHANGED heads
       ELSE /\ heads' = [heads EXCEPT ![fs.s] = fs.x]
            /\ fs' = NoCall
            /\ UNCHANGED <<pool, free_nodes>>
  /\ UNCHANGED <<cap, N_bits, log, it, credit, copies, hw, scn, fault>>

\* the values stored play no part in the linking: one value is pushed
NextAny ==
  \/ \E i, j \in Slots : PushAny(i, j, 1)
  \/ \E i \in Slots : PopAny(i)
  \/ \E i \in Slots : FreeStackCall(i)
  \/ FreeStackLoop

\* the pool is built by stack_pool()
InitAny == Init /\ cap = 0
SpecAny == InitAny /\ [][NextAny]_vars

(* ------ the members that replace the pool or write through references ---- *)
\* other pools b the caller has built: an empty one, one with a stack of one
\* node, and one with a stack of one node and a free node.  ret is the head of
\* the stack of b
OtherPools ==
  LET b0 == [pool |-> <<>>, free_nodes |-> end, cap |-> 0, ret |-> new_stack]
      b1 == _push(b0.pool, b0.free_nodes, b0.cap, N_bits, 2, b0.ret)
      b2 == _push(b1.pool, b1.free_nodes, b1.cap, N_bits, 1, b1.ret)
      b3 == pop(b2.pool, b2.free_nodes, b2.ret)
  IN {b0, b1, [pool |-> b3.pool, free_nodes |-> b3.free_nodes, cap |-> b2.cap, ret |-> b3.ret]}

\* capacity of a std::vector after copy assignment from a vector of n elements
copy_assign_capacity(c, n) == IF n > c THEN n ELSE c

\* the caller's handles after the pool object was given the nodes of b: the
\* stack of b is kept in slot 1, the handles into the old nodes are dropped
Adopt(b) ==
  /\ heads' = [i \in Slots |-> IF i = 1 THEN b.ret ELSE new_stack]
  /\ it' = NoIter
  /\ UNCHANGED <<N_bits, log, credit, copies, fs, hw, scn, fault>>

\* a = b;  stack_pool& operator=(const stack_pool&) = default
CopyAssign(b) ==
  /\ ~fs.on
  /\ pool' = b.pool
  /\ free_nodes' = b.free_nodes
  /\ cap' = copy_assign_capacity(cap, Len(b.pool))
  /\ Adopt(b)

\* a = std::move(b);  stack_pool& operator=(stack_pool&&) = default
MoveAssign(b) ==
  /\ ~fs.on
  /\ pool' = b.pool
  /\ free_nodes' = b.free_nodes
  /\ cap' = b.cap
  /\ Adopt(b)

\* stack_pool c(std::move(a)) or b = std::move(a);  the caller goes on with a:
\* the vector of a is left empty, free_nodes keeps its value
MovedFrom ==
  /\ ~fs.on
  /\ pool' = <<>>
  /\ cap' = 0
  /\ heads' = [i \in Slots |-> new_stack]
  /\ it' = NoIter
  /\ UNCHANGED <<free_nodes, N_bits, log, credit, copies, fs, hw, scn, fault>>

\* free_nodes and the caller's handles are 0 or nodes of the pool
FreeInRange == free_nodes \in 0..Len(pool)
HeadsInRange == \A i \in Slots : heads[i] \in 0..Len(pool)

\* push on a pool whose free_nodes is not a node (a moved-from pool): the
\* reuse branch reads next(free_nodes) and writes value and next outside the
\* vector.  With storage reserved the call reads what lies there, any value of
\* N, into free_nodes and returns the old free_nodes
PushOutOfRange(i) ==
  /\ ~fs.on
  /\ ~FreeInRange
  /\ cap > 0
  /\ heads' = [heads EXCEPT ![i] = free_nodes]
  /\ free_nodes' \in 0..(2 ^ N_bits - 1)
  /\ it' = Drop(i)
  /\ UNCHANGED <<pool, cap, N_bits, log, credit, copies, fs, hw, scn, fault>>

\* the same push where the read is outside the memory of the process, as it
\* always is for a vector without storage: the run ends inside push
PushFaults(i) ==
  /\ ~fs.on
  /\ ~FreeInRange
  /\ fault' = TRUE
  /\ UNCHANGED <<pool, cap, free_nodes, N_bits, heads, log, it, credit, copies, fs, hw, scn>>

\* value(x) = v  through the reference value(x) returns, x a live node
SetValue(x, v) ==
  /\ ~fs.on
  /\ Live(x)
  /\ pool' = [pool EXCEPT ![x].value = v]
  /\ UNCHANGED <<cap, free_nodes, N_bits, heads, log, it, credit, copies, fs, hw, scn, fault>>

\* next(x) = y  through the reference next(x) returns, x a live node: the
\* caller stores a handle in the pool by itself, which copies counts
SetNext(x, y) ==
  /\ ~fs.on
  /\ copies < MaxCopies
  /\ Live(x)
  /\ pool' = [pool EXCEPT ![x].next = y]
  /\ copies' = copies + 1
  /\ UNCHANGED <<cap, free_nodes, N_bits, heads, log, it, credit, fs, hw, scn, fault>>

\* the iterator a after at most k turns of  ++a,  stopped at end
RECURSIVE incr_times(_, _, _)
incr_times(p, a, k) ==
  IF k = 0 \/ iter_eq(a, begin(a.s, end)) THEN a ELSE incr_times(p, incr(p, a), k - 1)

\* auto a = begin(heads[i]);  k turns of ++a;  *a = v  through the reference
\* operator* returns, a not at end
IterWrite(i, k, v) ==
  /\ ~fs.on
  /\ \A a \in {incr_times(pool, begin(i, heads[i]), k)} :
       /\ iter_ne(a, begin(i, end))
       /\ pool' = [pool EXCEPT ![a.StackIndex].value = v]
  /\ UNCHANGED <<cap, free_nodes, N_bits, heads, log, it, credit, copies, fs, hw, scn, fault>>

\* no access outside the vector has happened or is about to
NodesInRange == HeadsInRange /\ FreeInRange

\* every public member of stack_pool and MyIterator that changes the pool or the
\* handles; free_stack runs turn by turn, since on lists that next(x) = y has
\* tied into a loop it need not end.  Calls that access nodes are followed while
\* free_nodes and the handles are in range: after an access outside the vector
\* nothing more is known of the pool
NextWhole ==
  \/ \E i \in Slots, v \in T : ~fault /\ NodesInRange /\ PushAny(i, i, v)
  \/ \E i \in Slots : ~fault /\ NodesInRange /\ PopAny(i)
  \/ \E i \in Slots : ~fault /\ NodesInRange /\ FreeStackCall(i)
  \/ ~fault /\ NodesInRange /\ FreeStackLoop
  \/ \E x \in 1..Len(pool), v \in T : ~fault /\ NodesInRange /\ SetValue(x, v)
  \/ \E x \in 1..Len(pool), y \in 0..Len(pool) : ~fault /\ NodesInRange /\ SetNext(x, y)
  \/ \E i \in Slots, k \in 0..(MaxNodes - 1), v \in T :
       ~fault /\ NodesInRange /\ IterWrite(i, k, v)
  \/ \E n \in 0..MaxReserve : ~fault /\ HeadsInRange /\ ~fs.on /\ Reserve(n)
  \/ \E i \in Slots : ~fault /\ HeadsInRange /\ PushOutOfRange(i)
  \/ \E i \in Slots : ~fault /\ HeadsInRange /\ PushFaults(i)
  \/ ~fault /\ HeadsInRange /\ MovedFrom
  \/ \E b \in OtherPools : ~fault /\ MoveAssign(b)
  \/ \E b \in OtherPools : ~fault /\ CopyAssign(b)

\* the pool is instantiated with N = std::uint8_t
InitWhole == InitBits(ByteBits)
SpecWhole == InitWhole /\ [][NextWhole]_vars

TypeOK ==
  /\ Len(pool) <= MaxNodes
  /\ free_nodes \in 0..Len(pool)
  /\ \A i \in Slots : heads[i] \in 0..Len(pool)

(* ------------------------------ properties ------------------------------ *)
\* the list roots of the pool: 0 is free_nodes, i in Slots is heads[i]
Root(a) == IF a = 0 THEN free_nodes ELSE heads[a]
\* the caller has used every handle once, no call is under way and every handle
\* the caller holds is 0 or a node
LinearUse == linear /\ ~fs.on /\ HeadsInRange
Roots == 0..NStacks

\* node x links to a node of a higher index.  The growth path links the new
\* node size + 1 to a head that exists already, so it never makes such a link:
\* where one is found the reuse path has handed out x.  The test is a
\* sufficient one: a reused node that links to 0 or to a lower index fails it
LinksUp(p, x) == ~empty(x) /\ ~empty(next(p, x)) /\ x < next(p, x)

\* C1 (LIFO law): when the loop  for (it = begin(h); it != end(); ++it)  over a
\* stack has finished, the values it read are the values pushed onto that stack
\* and still on it, newest first: vk, ..., v1 for pushes v1, ..., vk onto an
\* empty stack, whichever path each push took.
C1_LIFO ==
  (it.on /\ iter_eq(it, begin(it.s, end))) => it.seen = Reverse(log[it.s])

\* a finished iteration that read 2 then 1 from a stack onto which 1 then 2 were
\* pushed, the second push having recycled a node
C1_Witness ==
  /\ it.on /\ iter_eq(it, begin(it.s, end))
  /\ it.seen = <<2, 1>>
  /\ log[it.s] = <<1, 2>>
  /\ LinksUp(pool, heads[it.s])

\* C2 (pop/push duality): in every reachable state, for every value v and every
\* head h (0 or the head of a live stack), push(v, h) accesses nodes of the
\* pool only, pop(push(v, h)) returns h and the values of the stack headed by h
\* are the same after the two calls as before.
C2_PopPushDuality ==
  LinearUse =>
    \A v \in T : \A h \in {end} \cup {heads[i] : i \in Slots} :
      /\ FreeInRange
      /\ LET a == _push(pool, free_nodes, cap, N_bits, v, h)
             b == pop(a.pool, a.free_nodes, a.ret)
         IN /\ b.ret = h
            /\ ValuesFrom(b.pool, h) = ValuesFrom(pool, h)


\* C3 (disjointness): under linear handle use no node index is reachable from
\* two different list roots (free_nodes and the heads of the stacks).
C3_Disjoint ==
  \A a, b \in Roots :
    a /= b => NodesFrom(pool, Root(a)) \cap NodesFrom(pool, Root(b)) = {}

\* two non-empty stacks and a non-empty free list at once
C3_Witness ==
  /\ \A i \in 1..2 : ~empty(heads[i])
  /\ ~empty(free_nodes)

\* following next from x reaches 0 without visiting an index twice
AcyclicFrom(p, x) == LET l == ListFrom(p, x) IN Len(l) <= Len(p) /\ NoRepeat(l)
Acyclic ==
  /\ \A a \in Roots : AcyclicFrom(pool, Root(a))
  /\ fs.on => AcyclicFrom(pool, fs.x)

\* C4 as stated (acyclicity whatever live handle each call is given, handles
\* being copied and used again): the free list and every stack reach 0 without
\* visiting an index twice.
C4_AcyclicAnyUse == Acyclic

\* C4 as amended (acyclicity under linear handle use): as long as every push, pop
\* and free_stack was given the current head of a stack and its result replaced
\* that head, the free list and every stack reach 0 without visiting an index twice.
C4_AcyclicLinear == linear => Acyclic

\* linear use so far, no free_stack call is running, a stack has been emptied,
\* the free list holds a node, and a stack has a recycled node on top of another
C4_Witness ==
  /\ linear /\ ~fs.on
  /\ Len(ListFrom(pool, free_nodes)) >= 1
  /\ \E i \in Slots : empty(heads[i])
  /\ \E j \in Slots : LinksUp(pool, heads[j])

\* C5 (stack isolation and index stability): a push, pop or free_stack applied
\* to the head of one stack leaves the (index, value) pairs visited from the
\* head of every other stack unchanged.  (A call that leaves heads[i] as it was
\* is free_stack on an empty stack, which changes nothing.)
C5_Isolation ==
  [][\A i, j \in Slots :
       (i /= j /\ heads'[i] /= heads[i]
          /\ ((\E v \in T : Push(i, v)) \/ Pop(i) \/ FreeStack(i)))
         => PairsFrom(pool', heads[j]) = PairsFrom(pool, heads[j])]_vars

\* a stack whose head was recycled next to another stack that is not empty, with
\* the backing storage grown to its bound
C5_Witness ==
  /\ Len(pool) = 3
  /\ \E i, j \in Slots : i /= j /\ LinksUp(pool, heads[i]) /\ ~empty(heads[j])

\* C6 (recycling): a push made while pops are still unmatched by pushes (the
\* next m pushes after m pops) changes neither capacity() nor the number of
\* allocated nodes.
C6_Recycling ==
  [][\A i \in Slots, v \in T :
       (Push(i, v) /\ credit > 0) => (cap' = cap /\ Len(pool') = Len(pool))]_vars

\* two pops and then one push that recycled a node: one more push is owed
C6_Witness ==
  /\ credit = 1 /\ ~empty(free_nodes)
  /\ \E i \in Slots : LinksUp(pool, heads[i])

\* C7 (monotonic capacity): no step lowers capacity(), and pop and free_stack
\* leave it as it is.
C7_MonotonicCapacity ==
  [][/\ cap' >= cap
     /\ \A i \in Slots : (Pop(i) \/ FreeStack(i)) => cap' = cap]_vars

\* growth has doubled the capacity twice, and nodes have been popped since
C7_Witness ==
  cap = 4 /\ Len(pool) = 3 /\ credit >= 2

\* C8 (exhaustion): free_stack(h) on a stack with nodes n1 (head), ..., nk
\* returns 0, empty(0) holds, the free list becomes nk, ..., n1 followed by the
\* old free list, and the nodes of every other stack stay where they are.
C8_Exhaustion ==
  [][\A i \in Slots :
       FreeStack(i) =>
         /\ heads'[i] = end /\ empty(heads'[i])
         /\ ListFrom(pool', free_nodes') =
              Reverse(ListFrom(pool, heads[i])) \o ListFrom(pool, free_nodes)
         /\ \A j \in Slots \ {i} :
              ListFrom(pool', heads'[j]) = ListFrom(pool, heads[j])]_vars

\* the state free_stack leaves after recycling a stack of two nodes while
\* another stack is not empty
C8_Witness ==
  /\ Len(ListFrom(pool, free_nodes)) = 2 /\ credit = 2
  /\ \E i \in Slots : empty(heads[i])
  /\ \E j \in Slots : ~empty(heads[j])

\* the status of index x in a pool p with free list f and stack heads h
StatusIn(size, free, live, x) ==
  IF x > size THEN "Unallocated"
  ELSE IF x \in free THEN "Free"
  ELSE IF x \in live THEN "Live"
  ELSE "Lost"
FreeNodes(p, f) == NodesFrom(p, f)
LiveNodes(p, h) == UNION {NodesFrom(p, h[i]) : i \in Slots}
Status(p, f, h, x) == StatusIn(Len(p), FreeNodes(p, f), LiveNodes(p, h), x)

\* C9 (iterator termination): an iterator built by begin(h) on a stack of length
\* k equals end() after exactly k applications of operator++ and not before;
\* for h = 0 it equals end() at once.
C9_IterTermination ==
  it.on => /\ it.n <= Len(log[it.s])
           /\ iter_eq(it, begin(it.s, end)) <=> it.n = Len(log[it.s])

\* an iterator that reached end() after two increments
C9_Witness ==
  it.on /\ it.n = 2 /\ iter_eq(it, begin(it.s, end)) /\ ~empty(free_nodes)

\* C10 (node lifecycle): under linear handle use a step changes the status of an
\* index only from Unallocated to Live (push with an empty free list, index
\* size+1), from Free to Live (push with a non-empty free list, the free-list
\* head) or from Live to Free (pop: the head popped; free_stack: the nodes of the
\* freed stack); every other index keeps its status, which is always one of the
\* three.  (The status is a function of pool, free_nodes and heads: a step that
\* changes none of them changes no status.)
C10_Lifecycle ==
  [][<<pool, free_nodes, heads>>' /= <<pool, free_nodes, heads>> =>
     \A F0 \in {FreeNodes(pool, free_nodes)}, L0 \in {LiveNodes(pool, heads)},
        F1 \in {FreeNodes(pool', free_nodes')}, L1 \in {LiveNodes(pool', heads')} :
     \A x \in 1..MaxNodes :
       LET a == StatusIn(Len(pool), F0, L0, x)
           b == StatusIn(Len(pool'), F1, L1, x)
       IN /\ b \in {"Unallocated", "Free", "Live"}
          /\ a /= b =>
               \/ /\ a = "Unallocated" /\ b = "Live"
                  /\ \E i \in Slots, v \in T : Push(i, v)
                  /\ empty(free_nodes) /\ x = Len(pool) + 1
               \/ /\ a = "Free" /\ b = "Live"
                  /\ \E i \in Slots, v \in T : Push(i, v)
                  /\ ~empty(free_nodes) /\ x = free_nodes
               \/ /\ a = "Live" /\ b = "Free"
                  /\ \E i \in Slots :
                       \/ Pop(i) /\ x = heads[i]
                       \/ FreeStack(i) /\ x \in NodesFrom(pool, heads[i])]_vars

\* a node that was pushed, popped and pushed again is live at the head of a stack
\* while the free list still holds a popped node
C10_Witness ==
  /\ \E i \in Slots : /\ LinksUp(pool, heads[i])
                      /\ Status(pool, free_nodes, heads, heads[i]) = "Live"
  /\ ~empty(free_nodes) /\ Status(pool, free_nodes, heads, free_nodes) = "Free"
\* C11 (as stated) after h1 = push(1, h0); h2 = push(2, h1); h3 = pop(h2);
\* h4 = push(3, h0); the call free_stack(h1) returns 0, empty(0) holds and the
\* free list holds two nodes
C11_TwoNodesFree ==
  scn = Len(Scenario) =>
    /\ heads[1] = end
    /\ empty(heads[1])
    /\ Len(ListFrom(pool, free_nodes)) = 2

\* C11 (amended) in the scenario h1 is node 1, h2 is node 2, pop(h2) returns h1
\* and leaves node 2 free, push(3, h0) takes node 2 again without a change of
\* capacity, and free_stack(h1) returns 0 with empty(0) and frees the one node
\* of stack h1: the free list then holds node 1 only and node 2 stays on h4
C11_Scenario ==
  /\ scn = 1 => heads[1] = 1
  /\ scn = 2 => heads[1] = 2 /\ ValuesFrom(pool, heads[1]) = <<2, 1>>
  /\ scn = 3 => heads[1] = 1 /\ ListFrom(pool, free_nodes) = <<2>>
  /\ scn = 4 => heads[2] = 2 /\ empty(free_nodes) /\ Len(pool) = 2
  /\ scn = Len(Scenario) =>
       /\ heads[1] = end
       /\ empty(heads[1])
       /\ ListFrom(pool, free_nodes) = <<1>>
       /\ ValuesFrom(pool, heads[2]) = <<3>>
       /\ Len(pool) = 2

\* the five calls of the scenario have been made
C11_Witness == scn = Len(Scenario) /\ heads[2] = 2 /\ value(pool, 2) = 3
\* the results of the calls push(run[1][1], h), push(run[2][1], h), ... made one
\* after the other from the pool r, where h is 0 (a new stack) when run[k][2]
\* holds and else the handle the call before returned
RECURSIVE Pushes(_, _, _)
Pushes(r, w, run) ==
  IF run = <<>> THEN <<>>
  ELSE LET r1 == _push(r.pool, r.free_nodes, r.cap, w, Head(run)[1],
                       IF Head(run)[2] THEN end ELSE r.ret)
       IN <<r1>> \o Pushes(r1, w, Tail(run))

\* C12 a pool with no nodes (built by stack_pool() or stack_pool(n), reserved any
\* number of times) has an empty free list, and after reserve(n) its capacity is
\* at least n, the first push returns index 1 and each of the first n pushes
\* adds one node and leaves the capacity as it was
C12_Reserve ==
  Len(pool) = 0 =>
    /\ free_nodes = end
    /\ \A n \in 0..MaxReserve :
         LET c == reserve(cap, n)
             r0 == [pool |-> pool, free_nodes |-> free_nodes, cap |-> c, ret |-> end]
         IN /\ c >= n
            /\ \A run \in [1..n -> T \X BOOLEAN] :
                 LET rs == Pushes(r0, N_bits, run)
                 IN \A k \in 1..n : /\ rs[k].cap = c
                                    /\ Len(rs[k].pool) = k
                                    /\ empty(rs[k].free_nodes)
                                    /\ k = 1 => rs[k].ret = 1

\* a pool with no nodes whose capacity was reserved for MaxReserve nodes
C12_Witness == Len(pool) = 0 /\ cap = MaxReserve /\ free_nodes = end
\* the iterators a caller can hold on this pool: the one in use, if any, begin
\* of every stack and end
Iterators ==
  (IF it.on THEN {it} ELSE {}) \cup {begin(1, end)} \cup {begin(j, heads[j]) : j \in Slots}
\* iterators of another pool, at end and at the indices this pool has
OtherIterators == {[begin(1, x) EXCEPT !.PoolPointer = "other"] : x \in 0..Len(pool)}

\* C13 two iterators are == exactly when their indices are equal, != is the
\* negation of ==, and two exhausted iterators are == whatever stack or pool
\* they come from; a default-constructed iterator compares by whatever index
\* it holds
C13_IterEquality ==
  \A a \in Iterators, b \in Iterators \cup OtherIterators \cup MyIterator_default(Len(pool)) :
     /\ iter_eq(a, b) <=> (a.StackIndex = b.StackIndex)
     /\ iter_ne(a, b) <=> ~iter_eq(a, b)
     /\ (empty(a.StackIndex) /\ empty(b.StackIndex)) => (iter_eq(a, b) /\ ~iter_ne(a, b))

\* an iterator exhausted by a loop over one stack while another stack has nodes
C13_Witness ==
  /\ it.on /\ it.n >= 1 /\ empty(it.StackIndex)
  /\ \E j \in Slots : j /= it.s /\ ~empty(heads[j])
\* C14 push(v, h) with an empty free list adds one node, returns its index
\* (the new number of nodes) and leaves the free list empty; with a free node
\* it returns free_nodes, moves free_nodes to its old next and adds no node.
\* The node returned holds v and links to h; no other node changes
C14_PushAlgorithm ==
  [][\A i \in Slots, v \in T :
       Push(i, v) =>
         \A r \in {heads'[i]} :
            /\ IF free_nodes = end
                 THEN /\ Len(pool') = Len(pool) + 1
                      /\ r = Len(pool) + 1
                      /\ free_nodes' = end
                 ELSE /\ r = free_nodes
                      /\ free_nodes' = next(pool, free_nodes)
                      /\ Len(pool') = Len(pool)
            /\ value(pool', r) = v
            /\ next(pool', r) = heads[i]
            /\ \A x \in 1..Len(pool) : x /= r => pool'[x] = pool[x]]_vars

\* a push has taken the node popped last while an older free node with the
\* other value stays on the free list
C14_Witness ==
  \E i \in Slots :
     /\ LinksUp(pool, heads[i])
     /\ ~empty(free_nodes)
     /\ value(pool, free_nodes) /= value(pool, heads[i])
\* C15 pop(x) on the head x of a stack returns the old next(x), links x to the
\* old free head and makes x the free head; the value of x, every other node,
\* the other heads, the number of nodes and the capacity stay as they were.
\* The value of a node changes only in a push that returns that node
C15_PopFrame ==
  [][/\ \A i \in Slots :
          Pop(i) =>
            \A x \in {heads[i]} :
               /\ heads'[i] = next(pool, x)
               /\ next(pool', x) = free_nodes
               /\ free_nodes' = x
               /\ value(pool', x) = value(pool, x)
               /\ \A y \in 1..Len(pool) : y /= x => pool'[y] = pool[y]
               /\ \A j \in Slots : j /= i => heads'[j] = heads[j]
               /\ Len(pool') = Len(pool)
               /\ cap' = cap
     /\ \A x \in 1..Len(pool) :
          value(pool', x) /= value(pool, x) =>
            \E i \in Slots, v \in T : Push(i, v) /\ x = free_nodes /\ heads'[i] = x]_vars

\* a popped node with the value 2 heads the free list in front of an older free node
C15_Witness ==
  /\ credit >= 2
  /\ ~empty(free_nodes)
  /\ value(pool, free_nodes) = 2
  /\ ~empty(next(pool, free_nodes))
\* the indices x of the calls node(x) made by one call of each operation
push_accesses(p, f) == IF empty(f) THEN {} ELSE {f}
pop_accesses(x) == {x}
iter_accesses(i) == {i.StackIndex}
\* free_stack(x): the parameters of its pop calls in order; the list ends at an
\* index that is not a node, which pop would still access
RECURSIVE free_stack_accesses(_, _, _)
free_stack_accesses(p, f, x) ==
  IF x /= end
    THEN IF x \in 1..Len(p)
           THEN LET r == pop(p, f, x)
                IN <<x>> \o free_stack_accesses(r.pool, r.free_nodes, r.ret)
           ELSE <<x>>
    ELSE <<>>

InRange(x) == 1 <= x /\ x <= Len(pool)

\* C16 in every state reached under linear use every node(x) made by a push,
\* by a pop of a non-empty stack, by free_stack of any stack and by * and ++ of
\* an iterator that is not at end() has 1 <= x <= number of nodes; a push with
\* an empty free list makes no access, and free_stack(0) makes none and
\* returns 0 with the pool and the free list as they were
C16_AccessInRange ==
  LinearUse =>
    /\ \A x \in push_accesses(pool, free_nodes) : InRange(x)
    /\ empty(free_nodes) => push_accesses(pool, free_nodes) = {}
    /\ \A i \in Slots :
         ~empty(heads[i]) => \A x \in pop_accesses(heads[i]) : InRange(x)
    /\ \A i \in Slots :
         LET a == free_stack_accesses(pool, free_nodes, heads[i])
         IN /\ \A k \in 1..Len(a) : InRange(a[k])
            /\ empty(heads[i]) =>
                 /\ a = <<>>
                 /\ free_stack(pool, free_nodes, heads[i])
                      = [pool |-> pool, free_nodes |-> free_nodes, ret |-> end]
    /\ (it.on /\ ~iter_eq(it, begin(it.s, end))) =>
         \A x \in iter_accesses(it) : InRange(x)

\* C17 free_stack(h) on a stack of k nodes makes k pop calls, one for each node
\* of the stack from the head on, and ends as the caller's loop
\* while (h != 0) h = pop(h) does: each pop the caller makes leaves the pool,
\* the free list and the handle that free_stack would end with as they were,
\* and on the empty stack free_stack makes no pop and returns 0 with nothing changed
C17_FreeStackLoop ==
  [][\A i \in Slots :
       /\ empty(heads[i]) =>
            free_stack(pool, free_nodes, heads[i])
              = [pool |-> pool, free_nodes |-> free_nodes, ret |-> end]
       /\ Pop(i) =>
            /\ free_stack_accesses(pool, free_nodes, heads[i]) = ListFrom(pool, heads[i])
            /\ free_stack(pool', free_nodes', heads'[i])
                 = free_stack(pool, free_nodes, heads[i])
            /\ Len(free_stack_accesses(pool', free_nodes', heads'[i]))
                 = Len(free_stack_accesses(pool, free_nodes, heads[i])) - 1
       /\ FreeStack(i) =>
            /\ free_stack_accesses(pool, free_nodes, heads[i]) = ListFrom(pool, heads[i])
            /\ empty(heads'[i])
            /\ Len(ListFrom(pool', free_nodes'))
                 = Len(ListFrom(pool, free_nodes)) + Len(ListFrom(pool, heads[i]))]_vars

\* a stack of two or more nodes was emptied while another stack holds a node
C17_Witness ==
  /\ credit >= 2
  /\ Len(ListFrom(pool, free_nodes)) >= 2
  /\ \E i, j \in Slots : empty(heads[i]) /\ ~empty(heads[j])
\* C18 with an index type of w bits every push returns a handle r that is not
\* 0, with value(r) = val and next(r) = head, also the push that takes the
\* pool from 2^w - 1 to 2^w nodes
C18_PushNonSentinel ==
  [][\A i \in Slots, v \in T :
       PushNarrow(i, v) =>
         /\ ~empty(heads'[i])
         /\ value(pool', heads'[i]) = v
         /\ next(pool', heads'[i]) = heads[i]]_vars
\* the lengths of the stacks headed by h[1], ..., h[k] added up
RECURSIVE LenSum(_, _, _)
LenSum(p, h, k) == IF k = 0 THEN 0 ELSE Len(ListFrom(p, h[k])) + LenSum(p, h, k - 1)

\* C19 in every state reached under linear use the free list is made of nodes
\* of the pool, every node 1..size lies on the free list or on the stack of
\* some head, and the lengths of the stacks and of the free list add up to the
\* number of nodes
C19_NoLeak ==
  LinearUse =>
    /\ FreeInRange
    /\ \A x \in 1..Len(pool) : x \in FreeNodes(pool, free_nodes) \cup LiveNodes(pool, heads)
    /\ LenSum(pool, heads, NStacks) + Len(ListFrom(pool, free_nodes)) = Len(pool)


\* C20 the number of nodes equals the largest number of nodes that were live
\* at the same time in any state so far, and the number of nodes changes only
\* in a push made with an empty free list, which adds one node
C20_HighWater ==
  [][/\ hw = Len(pool)
     /\ hw' = Len(pool')
     /\ Len(pool') /= Len(pool) =>
          /\ empty(free_nodes)
          /\ Len(pool') = Len(pool) + 1
          /\ \E i \in Slots, v \in T : Push(i, v)]_vars

\* three nodes were live at once, now one is live and the others are free
C20_Witness ==
  /\ hw >= 3
  /\ LiveCount(pool, heads) = 1
  /\ Len(ListFrom(pool, free_nodes)) = hw - 1
====
